---- MODULE Spec2Model ----
(***************************************************************************)
(* StructLM schema model: schema nodes (string, number, boolean, array,    *)
(* object) with the two mutators validate() and optional(), the recursive  *)
(* stringify() and the recursive parse() with its JSON re-serialisation of *)
(* every array element and object property.                                *)
(***************************************************************************)
EXTENDS Integers, Sequences, FiniteSets, TLC

VARIABLES nodes, shapes, declared, root, shown, last, runner

vars == <<nodes, shapes, declared, root, shown, last, runner>>

(***************************************************************************)
(* Bounds of the explored inputs.                                          *)
(***************************************************************************)
\* largest number literal of the input documents
MaxNum == 1
\* largest length of an input array
MaxItems == 2
\* largest number of properties of an input object
MaxProps == 2
\* largest canonical array-index key the host orders numerically
MaxIndexKey == 2

(***************************************************************************)
(* Host values.  Every value is a record of one shape; k is the kind.      *)
(***************************************************************************)
JBlank == [k |-> "undefined", s |-> "", n |-> 0, b |-> FALSE, items |-> <<>>, props |-> <<>>]
JUndefined == JBlank
JNull == [JBlank EXCEPT !.k = "null"]
JFunction == [JBlank EXCEPT !.k = "function"]
JStr(s) == [JBlank EXCEPT !.k = "string", !.s = s]
JNum(n) == [JBlank EXCEPT !.k = "number", !.n = n]
JBool(b) == [JBlank EXCEPT !.k = "boolean", !.b = b]
JArr(items) == [JBlank EXCEPT !.k = "array", !.items = items]
JObj(props) == [JBlank EXCEPT !.k = "object", !.props = props]

\* a type tag that tells null and arrays apart from objects
TypeOfSpecific(v) == v.k

\* typeof
TypeOf(v) ==
  CASE v.k = "null" -> "object"
    [] v.k = "array" -> "object"
    [] OTHER -> v.k

\* Array.isArray
IsArray(v) == v.k = "array"

(***************************************************************************)
(* Host objects: own properties in the host's property order, which is     *)
(* canonical array-index keys in ascending numeric order, then all other   *)
(* keys in creation order.                                                 *)
(***************************************************************************)
IsIndexKey(key) == \E i \in 0..MaxIndexKey : ToString(i) = key
IndexOfKey(key) == CHOOSE i \in 0..MaxIndexKey : ToString(i) = key

OwnKeys(props) == {props[i].key : i \in 1..Len(props)}
HasOwn(props, key) == key \in OwnKeys(props)
PosOf(props, key) == CHOOSE i \in 1..Len(props) : props[i].key = key
GetOwn(props, key) == props[PosOf(props, key)].val

\* number of leading entries that stay in front of a new key
InsertPos(props, key) ==
  IF IsIndexKey(key)
    THEN Cardinality({i \in 1..Len(props) :
                        IsIndexKey(props[i].key) /\ IndexOfKey(props[i].key) < IndexOfKey(key)})
    ELSE Len(props)

\* obj[key] = val
SetProp(props, key, val) ==
  IF HasOwn(props, key)
    THEN [props EXCEPT ![PosOf(props, key)].val = val]
    ELSE LET p == InsertPos(props, key)
         IN SubSeq(props, 1, p) \o <<[key |-> key, val |-> val]>> \o SubSeq(props, p + 1, Len(props))

\* an object literal { k1: v1, ..., kn: vn } evaluated left to right
RECURSIVE ObjectLiteral(_)
ObjectLiteral(entries) ==
  IF entries = <<>> THEN <<>>
  ELSE SetProp(ObjectLiteral(SubSeq(entries, 1, Len(entries) - 1)),
               entries[Len(entries)].key, entries[Len(entries)].val)

\* names every object inherits from Object.prototype
ObjectPrototypeKeys == {"toString", "constructor", "valueOf", "hasOwnProperty"}

\* key in obj
InOperator(key, props) == HasOwn(props, key) \/ key \in ObjectPrototypeKeys

\* obj[key]
GetProp(props, key) ==
  IF HasOwn(props, key) THEN GetOwn(props, key)
  ELSE IF key \in ObjectPrototypeKeys THEN JFunction
  ELSE JUndefined

(***************************************************************************)
(* JSON text is a sequence of tokens.                                      *)
(***************************************************************************)
TBlank == [t |-> "p", s |-> "", n |-> 0]
TP(s) == [TBlank EXCEPT !.s = s]
TStr(s) == [TBlank EXCEPT !.t = "str", !.s = s]
TNum(n) == [TBlank EXCEPT !.t = "num", !.n = n]
TWord(s) == [TBlank EXCEPT !.t = "word", !.s = s]

Lexeme(tok) ==
  CASE tok.t = "str" -> "\"" \o tok.s \o "\""
    [] tok.t = "num" -> ToString(tok.n)
    [] OTHER -> tok.s

RECURSIVE Render(_)
Render(toks) == IF toks = <<>> THEN "" ELSE Lexeme(Head(toks)) \o Render(Tail(toks))

\* String(undefined)
UndefinedText == <<TWord("undefined")>>

\* JSON.stringify(v): a text, or undefined for a function or undefined
RECURSIVE Serialize(_)
RECURSIVE SerializeItems(_)
RECURSIVE SerializeProps(_, _)
Serialize(v) ==
  CASE v.k = "string" -> <<TStr(v.s)>>
    [] v.k = "number" -> <<TNum(v.n)>>
    [] v.k = "boolean" -> <<TWord(IF v.b THEN "true" ELSE "false")>>
    [] v.k = "null" -> <<TWord("null")>>
    [] v.k = "array" -> <<TP("[")>> \o SerializeItems(v.items) \o <<TP("]")>>
    [] v.k = "object" -> <<TP("{")>> \o SerializeProps(v.props, TRUE) \o <<TP("}")>>
    [] OTHER -> <<>>
SerializeItems(items) ==
  IF items = <<>> THEN <<>>
  ELSE (IF Head(items).k \in {"undefined", "function"} THEN <<TWord("null")>> ELSE Serialize(Head(items)))
       \o (IF Len(items) > 1 THEN <<TP(",")>> ELSE <<>>)
       \o SerializeItems(Tail(items))
SerializeProps(props, first) ==
  IF props = <<>> THEN <<>>
  ELSE IF Head(props).val.k \in {"undefined", "function"} THEN SerializeProps(Tail(props), first)
  ELSE (IF first THEN <<>> ELSE <<TP(",")>>)
       \o <<TStr(Head(props).key), TP(":")>> \o Serialize(Head(props).val)
       \o SerializeProps(Tail(props), FALSE)

JSONstringify(v) ==
  IF v.k \in {"undefined", "function"}
    THEN [undef |-> TRUE, toks |-> <<>>]
    ELSE [undef |-> FALSE, toks |-> Serialize(v)]

\* the string a JSON.stringify result becomes when passed on as a string
AsText(r) == IF r.undef THEN UndefinedText ELSE r.toks

\* JSON.parse(text): recursive descent; pos is the next token to read
PFail == [ok |-> FALSE, v |-> JUndefined, pos |-> 0]
POk(v, pos) == [ok |-> TRUE, v |-> v, pos |-> pos]
IsTok(toks, i, s) == i <= Len(toks) /\ toks[i].t = "p" /\ toks[i].s = s

RECURSIVE ReadValue(_, _)
RECURSIVE ReadItems(_, _, _)
RECURSIVE ReadMembers(_, _, _)
ReadValue(toks, i) ==
  IF i > Len(toks) THEN PFail
  ELSE LET tok == toks[i] IN
    CASE tok.t = "str" -> POk(JStr(tok.s), i + 1)
      [] tok.t = "num" -> POk(JNum(tok.n), i + 1)
      [] tok.t = "word" ->
           (CASE tok.s = "true" -> POk(JBool(TRUE), i + 1)
              [] tok.s = "false" -> POk(JBool(FALSE), i + 1)
              [] tok.s = "null" -> POk(JNull, i + 1)
              [] OTHER -> PFail)
      [] tok.t = "p" /\ tok.s = "[" ->
           IF IsTok(toks, i + 1, "]") THEN POk(JArr(<<>>), i + 2)
           ELSE ReadItems(toks, i + 1, <<>>)
      [] tok.t = "p" /\ tok.s = "{" ->
           IF IsTok(toks, i + 1, "}") THEN POk(JObj(<<>>), i + 2)
           ELSE ReadMembers(toks, i + 1, <<>>)
      [] OTHER -> PFail
ReadItems(toks, i, acc) ==
  LET r == ReadValue(toks, i) IN
    IF ~r.ok THEN PFail
    ELSE IF IsTok(toks, r.pos, ",") THEN ReadItems(toks, r.pos + 1, Append(acc, r.v))
    ELSE IF IsTok(toks, r.pos, "]") THEN POk(JArr(Append(acc, r.v)), r.pos + 1)
    ELSE PFail
ReadMembers(toks, i, props) ==
  IF ~(i + 1 <= Len(toks) /\ toks[i].t = "str" /\ IsTok(toks, i + 1, ":")) THEN PFail
  ELSE LET r == ReadValue(toks, i + 2) IN
    IF ~r.ok THEN PFail
    ELSE IF IsTok(toks, r.pos, ",") THEN ReadMembers(toks, r.pos + 1, SetProp(props, toks[i].s, r.v))
    ELSE IF IsTok(toks, r.pos, "}") THEN POk(JObj(SetProp(props, toks[i].s, r.v)), r.pos + 1)
    ELSE PFail

JSONparse(toks) ==
  LET r == ReadValue(toks, 1) IN
    IF r.ok /\ r.pos = Len(toks) + 1 THEN [ok |-> TRUE, v |-> r.v]
    ELSE [ok |-> FALSE, v |-> JUndefined]

(***************************************************************************)
(* Validation functions.  A validator is a host closure; the model keeps a *)
(* small family of them, each with its source text (Function.toString) and *)
(* its result on every host value.                                         *)
(***************************************************************************)
NoFn == "undefined"

FnText(fn) ==
  CASE fn = "nonEmpty" -> "value => value.length > 0"
    [] fn = "positive" -> "n => n > 0"
    [] fn = "isTrue" -> "b => b === true"
    [] fn = "hasKeys" -> "o => Object.keys(o).length > 0"
    [] OTHER -> "() => false"

FnApply(fn, v) ==
  CASE fn = "nonEmpty" -> (v.k = "string" /\ v.s # "") \/ (v.k = "array" /\ Len(v.items) > 0)
    [] fn = "positive" -> v.k = "number" /\ v.n > 0
    [] fn = "isTrue" -> v.k = "boolean" /\ v.b
    [] fn = "hasKeys" -> v.k = "object" /\ Len(v.props) > 0
    [] OTHER -> FALSE

\* the validators the type ValidationFunction<T> admits for a node of a kind
FnsFor(kind) ==
  CASE kind = "string" -> {"nonEmpty"}
    [] kind = "number" -> {"positive"}
    [] kind = "boolean" -> {"isTrue"}
    [] kind = "array" -> {"nonEmpty"}
    [] OTHER -> {"hasKeys"}

(***************************************************************************)
(* Schema nodes live in a heap: nodes[n] is the object with identity n.    *)
(* An object schema refers to its shape object shapes[node.shape], a host  *)
(* object from field key to node identity.                                 *)
(***************************************************************************)
NewSchema(kind) ==
  [kind |-> kind, validationFn |-> NoFn, isOptional |-> FALSE, itemSchema |-> 0, shape |-> 0]
StringSchema == NewSchema("string")
NumberSchema == NewSchema("number")
BooleanSchema == NewSchema("boolean")
ArraySchema(itemSchema) == [NewSchema("array") EXCEPT !.itemSchema = itemSchema]
ObjectSchema(shape) == [NewSchema("object") EXCEPT !.shape = shape]

EmptyHeap == [nodes |-> <<>>, shapes |-> <<>>, declared |-> <<>>]
Alloc(hp, node) == [hp EXCEPT !.nodes = Append(hp.nodes, node)]
Newest(hp) == Len(hp.nodes)

\* the factories: each allocates one node
string(hp) == Alloc(hp, StringSchema)
number(hp) == Alloc(hp, NumberSchema)
boolean(hp) == Alloc(hp, BooleanSchema)
array(hp, itemSchema) == Alloc(hp, ArraySchema(itemSchema))
\* an object() that keeps copies of the field schemas it is given
objectCopying(hp, entries) ==
  LET copies == [i \in 1..Len(entries) |-> hp.nodes[entries[i].val]]
      kept == [i \in 1..Len(entries) |-> [key |-> entries[i].key, val |-> Len(hp.nodes) + i]]
  IN Alloc([hp EXCEPT !.nodes = hp.nodes \o copies,
                      !.shapes = Append(hp.shapes, ObjectLiteral(kept)),
                      !.declared = Append(hp.declared, [i \in 1..Len(entries) |-> entries[i].key])],
           ObjectSchema(Len(hp.shapes) + 1))

\* object({k1: n1, ...}): the literal makes the shape object, the schema keeps it
object(hp, entries) ==
  Alloc([hp EXCEPT !.shapes = Append(hp.shapes, ObjectLiteral(entries)),
                   !.declared = Append(hp.declared, [i \in 1..Len(entries) |-> entries[i].key])],
        ObjectSchema(Len(hp.shapes) + 1))

Leaf(hp, kind) ==
  CASE kind = "string" -> string(hp)
    [] kind = "number" -> number(hp)
    [] OTHER -> boolean(hp)

\* Object.entries(obj)
ObjectEntries(props) == props

(***************************************************************************)
(* stringify                                                               *)
(***************************************************************************)
RECURSIVE Join(_, _)
Join(parts, sep) ==
  IF parts = <<>> THEN ""
  ELSE IF Len(parts) = 1 THEN parts[1]
  ELSE parts[1] \o sep \o Join(Tail(parts), sep)

\* the hint comment without the optional flag
BuildStringifyResultValidatorOnly(node, baseType) ==
  IF node.validationFn # NoFn THEN baseType \o " /* " \o FnText(node.validationFn) \o " */" ELSE baseType

BuildStringifyResult(node, baseType) ==
  LET h1 == IF node.validationFn # NoFn THEN <<FnText(node.validationFn)>> ELSE <<>>
      hints == IF node.isOptional THEN Append(h1, "optional") ELSE h1
  IN IF Len(hints) > 0 THEN baseType \o " /* " \o Join(hints, ", ") \o " */" ELSE baseType

RECURSIVE Stringify(_, _)
ArrayBaseType(hp, node) == "[" \o Stringify(hp, node.itemSchema) \o "]"
ObjectBaseType(hp, node) ==
  LET ents == ObjectEntries(hp.shapes[node.shape])
      entries == [i \in 1..Len(ents) |-> ents[i].key \o ": " \o Stringify(hp, ents[i].val)]
  IN "{ " \o Join(entries, ", ") \o " }"
Stringify(hp, n) ==
  LET node == hp.nodes[n] IN
    CASE node.kind = "array" -> BuildStringifyResult(node, ArrayBaseType(hp, node))
      [] node.kind = "object" -> BuildStringifyResult(node, ObjectBaseType(hp, node))
      [] OTHER -> BuildStringifyResult(node, node.kind)

(***************************************************************************)
(* parse.  An outcome is a value or a failure; the failure carries the     *)
(* message text of the thrown Error and, beside it, the chain of failure   *)
(* kinds the text stands for.  trace lists, in order, every schema parse   *)
(* entered and every validator invocation.                                 *)
(***************************************************************************)
Frame(e) == [e |-> e, key |-> "", index |-> 0, expected |-> "", actual |-> ""]
EvParse(n, path) == [ev |-> "parse", node |-> n, path |-> path, arg |-> JUndefined, fn |-> NoFn]
EvValidate(n, path, v, fn) == [ev |-> "validate", node |-> n, path |-> path, arg |-> v, fn |-> fn]

Success(v, trace) == [ok |-> TRUE, value |-> v, msg |-> "", err |-> <<>>, trace |-> trace]
Failure(msg, err, trace) == [ok |-> FALSE, value |-> JUndefined, msg |-> msg, err |-> err, trace |-> trace]

\* the message of the SyntaxError JSON.parse throws
SyntaxErrorMessage == "Unexpected token"

\* Schema.parseJson
ParseJson(toks) ==
  LET j == JSONparse(toks) IN
    IF j.ok THEN [ok |-> TRUE, v |-> j.v, msg |-> ""]
    ELSE [ok |-> FALSE, v |-> JUndefined, msg |-> "Invalid JSON: " \o SyntaxErrorMessage]

\* Schema.runValidation, with the invocation it makes
RunValidation(node, v) == IF node.validationFn # NoFn THEN FnApply(node.validationFn, v) ELSE TRUE
ValidationTrace(node, n, path, v) ==
  IF node.validationFn # NoFn THEN <<EvValidate(n, path, v, node.validationFn)>> ELSE <<>>

ValidationMessage(kind) ==
  CASE kind = "array" -> "Array validation failed for value: "
    [] kind = "object" -> "Object validation failed for value: "
    [] OTHER -> "Validation failed for value: "

\* the common tail of every parse: run the validator on the assembled value
Validated(node, n, path, v, trace) ==
  LET tr == trace \o ValidationTrace(node, n, path, v) IN
    IF ~RunValidation(node, v)
      THEN Failure(ValidationMessage(node.kind) \o Render(AsText(JSONstringify(v))),
                   <<Frame("ValidationFailed")>>, tr)
      ELSE Success(v, tr)

TypeMismatch(expected, actual, trace) ==
  Failure("Expected " \o expected \o ", got " \o actual,
          <<[Frame("TypeMismatch") EXCEPT !.expected = expected, !.actual = actual]>>, trace)

RECURSIVE ParseNode(_, _, _, _)
RECURSIVE ParseItems(_, _, _, _, _, _, _)
RECURSIVE ParseFields(_, _, _, _, _, _, _, _)

\* a primitive parse that follows the nesting of the input: it looks into a one-element array
PrimitiveParseUnwrap(hp, n, toks, path) ==
  LET node == hp.nodes[n]
      j == ParseJson(toks)
      tr == <<EvParse(n, path)>>
  IN IF ~j.ok THEN Failure(j.msg, <<Frame("InvalidJson")>>, tr)
     ELSE IF IsArray(j.v) /\ Len(j.v.items) = 1
       THEN LET r == ParseNode(hp, n, AsText(JSONstringify(j.v.items[1])), Append(path, "0"))
            IN [r EXCEPT !.trace = tr \o r.trace]
     ELSE IF TypeOf(j.v) # node.kind THEN TypeMismatch(node.kind, TypeOf(j.v), tr)
     ELSE Validated(node, n, path, j.v, tr)

\* a primitive parse for which an optional schema also accepts null
PrimitiveParseOptionalNull(hp, n, toks, path) ==
  LET node == hp.nodes[n]
      j == ParseJson(toks)
      tr == <<EvParse(n, path)>>
  IN IF ~j.ok THEN Failure(j.msg, <<Frame("InvalidJson")>>, tr)
     ELSE IF node.isOptional /\ j.v.k = "null" THEN Success(j.v, tr)
     ELSE IF TypeOf(j.v) # node.kind THEN TypeMismatch(node.kind, TypeOf(j.v), tr)
     ELSE Validated(node, n, path, j.v, tr)

\* a primitive parse that runs the validator before the type check
PrimitiveParseValidateFirst(hp, n, toks, path) ==
  LET node == hp.nodes[n]
      j == ParseJson(toks)
      tr == <<EvParse(n, path)>>
      r == Validated(node, n, path, j.v, tr)
  IN IF ~j.ok THEN Failure(j.msg, <<Frame("InvalidJson")>>, tr)
     ELSE IF ~r.ok THEN r
     ELSE IF TypeOf(j.v) # node.kind THEN TypeMismatch(node.kind, TypeOf(j.v), r.trace)
     ELSE r

\* StringSchema.parse, NumberSchema.parse, BooleanSchema.parse
PrimitiveParse(hp, n, toks, path) ==
  LET node == hp.nodes[n]
      j == ParseJson(toks)
      tr == <<EvParse(n, path)>>
  IN IF ~j.ok THEN Failure(j.msg, <<Frame("InvalidJson")>>, tr)
     ELSE IF TypeOf(j.v) # node.kind THEN TypeMismatch(node.kind, TypeOf(j.v), tr)
     ELSE Validated(node, n, path, j.v, tr)

\* an ArraySchema.parse that runs the array's validator on the input array, before the elements
ArrayParseValidateFirst(hp, n, toks, path) ==
  LET node == hp.nodes[n]
      j == ParseJson(toks)
      tr == <<EvParse(n, path)>>
  IN IF ~j.ok THEN Failure(j.msg, <<Frame("InvalidJson")>>, tr)
     ELSE IF ~IsArray(j.v) THEN TypeMismatch("array", TypeOf(j.v), tr)
     ELSE LET checked == Validated(node, n, path, j.v, tr) IN
            IF ~checked.ok THEN checked
            ELSE ParseItems([hp EXCEPT !.nodes[n].validationFn = NoFn], n, j.v.items, 1, <<>>,
                            path, checked.trace)

\* ArraySchema.parse
ArrayParse(hp, n, toks, path) ==
  LET node == hp.nodes[n]
      j == ParseJson(toks)
      tr == <<EvParse(n, path)>>
  IN IF ~j.ok THEN Failure(j.msg, <<Frame("InvalidJson")>>, tr)
     ELSE IF ~IsArray(j.v) THEN TypeMismatch("array", TypeOf(j.v), tr)
     ELSE ParseItems(hp, n, j.v.items, 1, <<>>, path, tr)

\* an element loop that leaves a failing element out of the result
ParseItemsSkipBad(hp, n, parsed, i, result, path, trace) ==
  LET node == hp.nodes[n] IN
    IF i > Len(parsed) THEN Validated(node, n, path, JArr(result), trace)
    ELSE LET itemJsonString == AsText(JSONstringify(parsed[i]))
             r == ParseNode(hp, node.itemSchema, itemJsonString, Append(path, ToString(i - 1)))
         IN ParseItems(hp, n, parsed, i + 1,
                       IF r.ok THEN Append(result, r.value) ELSE result, path, trace \o r.trace)

\* an element loop that parses the remaining elements after a failure
ParseItemsCollect(hp, n, parsed, i, result, path, trace) ==
  LET node == hp.nodes[n] IN
    IF i > Len(parsed) THEN Validated(node, n, path, JArr(result), trace)
    ELSE LET itemJsonString == AsText(JSONstringify(parsed[i]))
             r == ParseNode(hp, node.itemSchema, itemJsonString, Append(path, ToString(i - 1)))
             rest == ParseItems(hp, n, parsed, i + 1, result, path, trace \o r.trace)
         IN IF ~r.ok
              THEN Failure("Array item at index " \o ToString(i - 1) \o ": " \o r.msg,
                           <<[Frame("ArrayItemFailed") EXCEPT !.index = i - 1]>> \o r.err,
                           rest.trace)
              ELSE ParseItems(hp, n, parsed, i + 1, Append(result, r.value), path, trace \o r.trace)

\* the element loop of ArraySchema.parse, from index i - 1 on
ParseItems(hp, n, parsed, i, result, path, trace) ==
  LET node == hp.nodes[n] IN
    IF i > Len(parsed) THEN Validated(node, n, path, JArr(result), trace)
    ELSE LET itemJsonString == AsText(JSONstringify(parsed[i]))
             r == ParseNode(hp, node.itemSchema, itemJsonString, Append(path, ToString(i - 1)))
         IN IF ~r.ok
              THEN Failure("Array item at index " \o ToString(i - 1) \o ": " \o r.msg,
                           <<[Frame("ArrayItemFailed") EXCEPT !.index = i - 1]>> \o r.err,
                           trace \o r.trace)
              ELSE ParseItems(hp, n, parsed, i + 1, Append(result, r.value), path, trace \o r.trace)

\* an ObjectSchema.parse that assembles its result on a copy of the input object
ObjectParseCopyInput(hp, n, toks, path) ==
  LET node == hp.nodes[n]
      j == ParseJson(toks)
      tr == <<EvParse(n, path)>>
  IN IF ~j.ok THEN Failure(j.msg, <<Frame("InvalidJson")>>, tr)
     ELSE IF TypeOf(j.v) # "object" \/ j.v.k = "null" \/ IsArray(j.v)
       THEN TypeMismatch("object", IF IsArray(j.v) THEN "array" ELSE TypeOf(j.v), tr)
     ELSE ParseFields(hp, n, ObjectEntries(hp.shapes[node.shape]), 1, j.v.props, j.v.props, path, tr)

\* ObjectSchema.parse
ObjectParse(hp, n, toks, path) ==
  LET node == hp.nodes[n]
      j == ParseJson(toks)
      tr == <<EvParse(n, path)>>
  IN IF ~j.ok THEN Failure(j.msg, <<Frame("InvalidJson")>>, tr)
     ELSE IF TypeOf(j.v) # "object" \/ j.v.k = "null" \/ IsArray(j.v)
       THEN TypeMismatch("object", IF IsArray(j.v) THEN "array" ELSE TypeOf(j.v), tr)
     ELSE ParseFields(hp, n, ObjectEntries(hp.shapes[node.shape]), 1, j.v.props, <<>>, path, tr)

\* the presence test of the field loop: !(key in parsedObj)
KeyMissingOrNull(key, parsedObj) ==
  ~InOperator(key, parsedObj) \/ GetProp(parsedObj, key).k = "null"
KeyMissing(key, parsedObj) == ~InOperator(key, parsedObj)

\* the field loop of ObjectSchema.parse, from entry i on
ParseFields(hp, n, entries, i, parsedObj, result, path, trace) ==
  LET node == hp.nodes[n] IN
    IF i > Len(entries) THEN Validated(node, n, path, JObj(result), trace)
    ELSE LET key == entries[i].key
             schema == entries[i].val
         IN IF KeyMissing(key, parsedObj)
              THEN IF hp.nodes[schema].isOptional
                     THEN ParseFields(hp, n, entries, i + 1, parsedObj, result, path, trace)
                     ELSE Failure("Missing required property: " \o key,
                                  <<[Frame("MissingRequiredProperty") EXCEPT !.key = key]>>, trace)
              ELSE LET propertyJsonString == AsText(JSONstringify(GetProp(parsedObj, key)))
                       r == ParseNode(hp, schema, propertyJsonString, Append(path, key))
                   IN IF ~r.ok
                        THEN Failure("Property '" \o key \o "': " \o r.msg,
                                     <<[Frame("PropertyFailed") EXCEPT !.key = key]>> \o r.err,
                                     trace \o r.trace)
                        ELSE ParseFields(hp, n, entries, i + 1, parsedObj,
                                         SetProp(result, key, r.value), path, trace \o r.trace)

\* schema.parse(jsonString), dispatched on the class of the node
ParseNode(hp, n, toks, path) ==
  LET node == hp.nodes[n] IN
    CASE node.kind = "array" -> ArrayParse(hp, n, toks, path)
      [] node.kind = "object" -> ObjectParse(hp, n, toks, path)
      [] OTHER -> PrimitiveParse(hp, n, toks, path)

(***************************************************************************)
(* The schemas explored: what the factories build, before any mutator.     *)
(***************************************************************************)
Entry(key, val) == [key |-> key, val |-> val]

Built(hp) == [hp |-> hp, root |-> Newest(hp)]

LeafKinds == {"string", "number", "boolean"}

\* s.string(), s.number(), s.boolean()
LeafSchemas == {Built(Leaf(EmptyHeap, kind)) : kind \in LeafKinds}

\* s.array(s.number()), s.array(s.string())
ArrayOfLeaf(kind) ==
  LET h1 == Leaf(EmptyHeap, kind) IN Built(array(h1, Newest(h1)))

\* s.object({ key: leaf })
ObjectOfOne(key, kind) ==
  LET h1 == Leaf(EmptyHeap, kind) IN Built(object(h1, <<Entry(key, Newest(h1))>>))

\* s.object({ k1: leaf1, k2: leaf2 }), the keys written in this order
ObjectOfTwo(k1, kind1, k2, kind2) ==
  LET h1 == Leaf(EmptyHeap, kind1)
      h2 == Leaf(h1, kind2)
  IN Built(object(h2, <<Entry(k1, Newest(h1)), Entry(k2, Newest(h2))>>))

\* s.object({ a: s.array(s.number()) })
ObjectOfArray ==
  LET h1 == number(EmptyHeap)
      h2 == array(h1, Newest(h1))
  IN Built(object(h2, <<Entry("a", Newest(h2))>>))

\* s.array(s.object({ a: s.number() }))
ArrayOfObject ==
  LET h1 == number(EmptyHeap)
      h2 == object(h1, <<Entry("a", Newest(h1))>>)
  IN Built(array(h2, Newest(h2)))

Schemas ==
  LeafSchemas
  \cup {ArrayOfLeaf("number"), ArrayOfObject, ObjectOfArray}
  \cup {Built(object(EmptyHeap, <<>>))}
  \cup {ObjectOfOne("a", "number"), ObjectOfOne("toString", "string")}
  \cup {ObjectOfTwo("a", "string", "b", "number"), ObjectOfTwo("b", "string", "1", "number")}

(***************************************************************************)
(* The documents explored.                                                 *)
(***************************************************************************)
Numbers == {JNum(i) : i \in 0..MaxNum}
LeafDocs == {JStr(""), JStr("a"), JBool(TRUE), JBool(FALSE), JNull} \cup Numbers

SeqsUpTo(S, n) == UNION {[1..m -> S] : m \in 0..n}

ItemVals == Numbers \cup {JStr("a"), JNull}
ArrayDocs == {JArr(items) : items \in SeqsUpTo(ItemVals, MaxItems)}

\* the keys an input object may carry, in the order the text writes them
InputKeys == <<"a", "b", "1", "x">>
PropVals == Numbers \cup {JStr("a"), JNull}

\* the increasing sequence of the members of a set of positions
RECURSIVE Ascending(_)
Ascending(I) ==
  IF I = {} THEN <<>>
  ELSE LET m == CHOOSE i \in I : \A j \in I : i <= j IN <<m>> \o Ascending(I \ {m})

KeyLists ==
  {[i \in 1..Cardinality(I) |-> InputKeys[Ascending(I)[i]]] :
     I \in {J \in SUBSET (1..Len(InputKeys)) : Cardinality(J) <= MaxProps}}

ObjectOver(keys) ==
  {JObj(ObjectLiteral([i \in 1..Len(keys) |-> Entry(keys[i], vals[i])])) :
     vals \in [1..Len(keys) -> PropVals]}

ObjectDocs == UNION {ObjectOver(keys) : keys \in KeyLists}

NestedDocs ==
  {JObj(<<Entry("a", arr)>>) : arr \in ArrayDocs}
  \cup {JArr(<<JObj(<<Entry("a", v)>>)>>) : v \in PropVals}
  \cup {JArr(<<JObj(<<Entry("a", JNum(MaxNum))>>), JObj(<<>>)>>)}
  \cup {JObj(<<Entry("toString", JStr("a"))>>)}

Documents == LeafDocs \cup ArrayDocs \cup ObjectDocs \cup NestedDocs

\* texts no JSON value serialises to: malformed ones, and a repeated key
RawTexts ==
  { <<>>,
    <<TP("{")>>,
    <<TP("["), TNum(1), TP(","), TP("]")>>,
    UndefinedText,
    <<TP("{"), TStr("a"), TP(":"), TStr("a"), TP(","), TStr("a"), TP(":"), TNum(1), TP("}")>> }

Inputs == {Serialize(v) : v \in Documents} \cup RawTexts

(***************************************************************************)
(* The state machine: a caller holds a schema built by the factories and   *)
(* calls validate(), optional(), stringify() and parse() on it; last is    *)
(* the call that has just returned.                                        *)
(***************************************************************************)
Heap == [nodes |-> nodes, shapes |-> shapes, declared |-> declared]

NoText == "<none>"
NotShown == [text |-> NoText, parsed |-> FALSE]
NoResult == Success(JUndefined, <<>>)
Idle == [op |-> "idle", node |-> 0, fn |-> NoFn, old |-> NoFn, input |-> <<>>, res |-> NoResult,
         text |-> NoText, prev |-> NotShown, ret |-> 0]

\* no benchmark is running
NoRun == [pc |-> "none", batchSize |-> 0, texts |-> <<>>, iterations |-> 0, created |-> 0,
          completed |-> {}, batchStart |-> 0, totalIterations |-> 0]

Init ==
  \E t \in Schemas :
    /\ nodes = t.hp.nodes
    /\ shapes = t.hp.shapes
    /\ declared = t.hp.declared
    /\ root = t.root
    /\ shown = NotShown
    /\ last = Idle
    /\ runner = NoRun

\* a validate() that keeps a validator the node already has
SetValidatorKeepFirst(nds, n, fn) ==
  IF nds[n].validationFn # NoFn THEN nds ELSE [nds EXCEPT ![n].validationFn = fn]
\* a validate() that builds the node's state afresh, dropping the optional flag
SetValidatorFresh(nds, n, fn) == [nds EXCEPT ![n].validationFn = fn, ![n].isOptional = FALSE]
\* this.validationFn = fn
SetValidator(nds, n, fn) == [nds EXCEPT ![n].validationFn = fn]
\* an optional() that flips the flag
MarkOptionalToggle(nds, n) == [nds EXCEPT ![n].isOptional = ~@]
\* an optional() that starts from a node without validator
MarkOptionalDropValidator(nds, n) == [nds EXCEPT ![n].isOptional = TRUE, ![n].validationFn = NoFn]
\* this.isOptional = true
MarkOptional(nds, n) == [nds EXCEPT ![n].isOptional = TRUE]

\* node.validate(fn)
Validate(n, fn) ==
  /\ last.op = "idle"
  /\ nodes' = SetValidator(nodes, n, fn)
  /\ shown' = NotShown
  /\ last' = [Idle EXCEPT !.op = "validate", !.node = n, !.fn = fn, !.old = nodes[n].validationFn,
                          !.ret = n]
  /\ UNCHANGED <<shapes, declared, root, runner>>

\* node.optional()
Optional(n) ==
  /\ last.op = "idle"
  /\ nodes' = MarkOptional(nodes, n)
  /\ shown' = NotShown
  /\ last' = [Idle EXCEPT !.op = "optional", !.node = n, !.ret = n]
  /\ UNCHANGED <<shapes, declared, root, runner>>

\* root.stringify()
StringifyCall ==
  /\ last.op = "idle"
  /\ LET text == Stringify(Heap, root) IN
       /\ last' = [Idle EXCEPT !.op = "stringify", !.node = root, !.text = text, !.prev = shown]
       /\ shown' = [text |-> text, parsed |-> FALSE]
  /\ UNCHANGED <<nodes, shapes, declared, root, runner>>

\* a parse that uses up the validator of the schema it is called on
ParseCallClearing(toks) ==
  /\ last.op = "idle"
  /\ last' = [Idle EXCEPT !.op = "parse", !.node = root, !.input = toks,
                          !.res = ParseNode(Heap, root, toks, <<>>)]
  /\ shown' = IF shown = NotShown THEN shown ELSE [shown EXCEPT !.parsed = TRUE]
  /\ nodes' = [nodes EXCEPT ![root].validationFn = NoFn]
  /\ UNCHANGED <<shapes, declared, root, runner>>

\* root.parse(text)
ParseCall(toks) ==
  /\ last.op = "idle"
  /\ last' = [Idle EXCEPT !.op = "parse", !.node = root, !.input = toks,
                          !.res = ParseNode(Heap, root, toks, <<>>)]
  /\ shown' = IF shown = NotShown THEN shown ELSE [shown EXCEPT !.parsed = TRUE]
  /\ UNCHANGED <<nodes, shapes, declared, root, runner>>

\* the caller is done with the returned value
Return ==
  /\ last.op # "idle"
  /\ last' = Idle
  /\ UNCHANGED <<nodes, shapes, declared, root, shown, runner>>

Next ==
  \/ \E n \in DOMAIN nodes : \E fn \in FnsFor(nodes[n].kind) : Validate(n, fn)
  \/ \E n \in DOMAIN nodes : Optional(n)
  \/ StringifyCall
  \/ \E toks \in Inputs : ParseCall(toks)
  \/ Return

Spec == Init /\ [][Next]_vars

(***************************************************************************)
(* The same caller with a second validator at hand for every node, so that *)
(* validate() can replace a validator by a different one.                  *)
(***************************************************************************)
RevalidatedSchemas == LeafSchemas \cup {ArrayOfLeaf("number"), ObjectOfOne("a", "number")}

\* the validators of a kind together with () => false
Validators(kind) == FnsFor(kind) \cup {"never"}

InitRevalidate ==
  \E t \in RevalidatedSchemas :
    /\ nodes = t.hp.nodes
    /\ shapes = t.hp.shapes
    /\ declared = t.hp.declared
    /\ root = t.root
    /\ shown = NotShown
    /\ last = Idle
    /\ runner = NoRun

NextRevalidate ==
  \/ \E n \in DOMAIN nodes : \E fn \in Validators(nodes[n].kind) : Validate(n, fn)
  \/ \E n \in DOMAIN nodes : Optional(n)
  \/ StringifyCall
  \/ \E toks \in Inputs : ParseCall(toks)
  \/ Return

SpecRevalidate == InitRevalidate /\ [][NextRevalidate]_vars

(***************************************************************************)
(* The caller keeps the shape object it passed to object(): the            *)
(* constructor stores the reference (private shape) and makes no copy, so  *)
(* an assignment to a property of that object, or a delete, is an          *)
(* assignment to this.shape.  The caller here holds one more leaf schema   *)
(* to assign; it assigns leaves only, so that the schema stays a tree.     *)
(***************************************************************************)
\* delete obj[key]
DeleteProp(props, key) ==
  IF HasOwn(props, key)
    THEN SubSeq(props, 1, PosOf(props, key) - 1) \o SubSeq(props, PosOf(props, key) + 1, Len(props))
    ELSE props

\* const spare = s.string(); const shape = { a: s.number() }; s.object(shape)
ObjectWithSpare ==
  LET h1 == string(EmptyHeap)
      h2 == number(h1)
  IN Built(object(h2, <<Entry("a", Newest(h2))>>))

\* const spare = s.string(); const shape = {}; s.object(shape)
EmptyWithSpare ==
  LET h1 == string(EmptyHeap) IN Built(object(h1, <<>>))

CallerSchemas == {ObjectWithSpare, EmptyWithSpare}
CallerKeys == {"a", "b"}
CallerInputs ==
  {Serialize(v) : v \in {JObj(<<>>), JObj(<<Entry("a", JNum(MaxNum))>>), JObj(<<Entry("a", JStr("a"))>>),
                         JObj(<<Entry("a", JNum(MaxNum)), Entry("b", JStr("a"))>>), JNull}}

InitCaller ==
  \E t \in CallerSchemas :
    /\ nodes = t.hp.nodes
    /\ shapes = t.hp.shapes
    /\ declared = t.hp.declared
    /\ root = t.root
    /\ shown = NotShown
    /\ last = Idle
    /\ runner = NoRun

\* shape[key] = schema, on the object that was passed to object()
AssignField(s, key, n) ==
  /\ last.op = "idle"
  /\ nodes[n].kind \in LeafKinds
  /\ shapes' = [shapes EXCEPT ![s] = SetProp(@, key, n)]
  /\ shown' = NotShown
  /\ last' = [Idle EXCEPT !.op = "assign", !.node = n]
  /\ UNCHANGED <<nodes, declared, root, runner>>

\* delete shape[key], on the object that was passed to object()
DeleteField(s, key) ==
  /\ last.op = "idle"
  /\ HasOwn(shapes[s], key)
  /\ shapes' = [shapes EXCEPT ![s] = DeleteProp(@, key)]
  /\ shown' = NotShown
  /\ last' = [Idle EXCEPT !.op = "delete"]
  /\ UNCHANGED <<nodes, declared, root, runner>>

NextCaller ==
  \/ \E n \in DOMAIN nodes : \E fn \in FnsFor(nodes[n].kind) : Validate(n, fn)
  \/ \E n \in DOMAIN nodes : Optional(n)
  \/ StringifyCall
  \/ \E toks \in CallerInputs : ParseCall(toks)
  \/ Return
  \/ \E s \in DOMAIN shapes : \E key \in CallerKeys : \E n \in DOMAIN nodes : AssignField(s, key, n)
  \/ \E s \in DOMAIN shapes : \E key \in CallerKeys : DeleteField(s, key)

SpecCaller == InitCaller /\ [][NextCaller]_vars

(***************************************************************************)
(* Schemas in which one leaf schema is used more than once.                *)
(***************************************************************************)
\* const n = s.number(); s.object({ a: n, b: n })
TwoFieldsShared ==
  LET h1 == number(EmptyHeap)
  IN Built(object(h1, <<Entry("a", Newest(h1)), Entry("b", Newest(h1))>>))

\* const n = s.number(); const first = s.object({ a: n }); s.object({ b: n })
TwoObjectsShared ==
  LET h1 == number(EmptyHeap)
      h2 == object(h1, <<Entry("a", Newest(h1))>>)
  IN Built(object(h2, <<Entry("b", Newest(h1))>>))

\* the node the caller made first and passed to every object()
SharedLeaf == Newest(number(EmptyHeap))

SharedSchemas == {TwoFieldsShared, TwoObjectsShared}
SharedInputs == {Serialize(v) : v \in ObjectDocs}

InitShared ==
  \E t \in SharedSchemas :
    /\ nodes = t.hp.nodes
    /\ shapes = t.hp.shapes
    /\ declared = t.hp.declared
    /\ root = t.root
    /\ shown = NotShown
    /\ last = Idle
    /\ runner = NoRun

NextShared ==
  \/ \E n \in DOMAIN nodes : \E fn \in FnsFor(nodes[n].kind) : Validate(n, fn)
  \/ \E n \in DOMAIN nodes : Optional(n)
  \/ StringifyCall
  \/ \E toks \in SharedInputs : ParseCall(toks)
  \/ Return

SpecShared == InitShared /\ [][NextShared]_vars

(***************************************************************************)
(* The first version of the schema classes: the notation is returned by    *)
(* toString(), and a caller builds a schema, attaches validators and       *)
(* prints it.                                                              *)
(***************************************************************************)
\* a toString() that appends the hint comment, as stringify() does
SchemaToStringHinted(hp, n) == Stringify(hp, n)

\* StringSchema.toString ... ObjectSchema.toString
RECURSIVE SchemaToString(_, _)
SchemaToString(hp, n) ==
  LET node == hp.nodes[n] IN
    CASE node.kind = "array" -> "[" \o SchemaToString(hp, node.itemSchema) \o "]"
      [] node.kind = "object" ->
           LET ents == ObjectEntries(hp.shapes[node.shape])
               entries == [i \in 1..Len(ents) |-> ents[i].key \o ": " \o SchemaToString(hp, ents[i].val)]
           IN "{ " \o Join(entries, ", ") \o " }"
      [] OTHER -> node.kind

\* root.toString()
ToStringCall ==
  /\ last.op = "idle"
  /\ last' = [Idle EXCEPT !.op = "toString", !.node = root, !.text = SchemaToString(Heap, root)]
  /\ UNCHANGED <<nodes, shapes, declared, root, shown, runner>>

NextToString ==
  \/ \E n \in DOMAIN nodes : \E fn \in FnsFor(nodes[n].kind) : Validate(n, fn)
  \/ ToStringCall
  \/ Return

SpecToString == Init /\ [][NextToString]_vars

(***************************************************************************)
(* BaseBenchmarkRunner.runBenchmark.  Tasks are numbered from 1; task i is *)
(* in flight from the call of runSingleBenchmark, which runs without a     *)
(* suspension up to client.generateResponse(...), until the client's       *)
(* response.  texts[i] tells whether config.inputTexts[i - 1] is a         *)
(* non-empty string.                                                       *)
(***************************************************************************)
\* largest config.iterations explored
MaxIterations == 11
\* const batchSize, in the two versions of the runner
BatchSizeFirst == 5
BatchSizeLater == 10

InputTexts == {<<>>, <<TRUE>>, <<TRUE, FALSE>>}

Min(a, b) == IF a < b THEN a ELSE b

\* the tasks runSingleBenchmark has been called for and whose response is outstanding
InFlight == (1..runner.created) \ runner.completed

\* benchmarkTasks.slice(batchStart, batchEnd), as task numbers
Batch == (runner.batchStart + 1)..Min(runner.batchStart + runner.batchSize, runner.iterations)

InitBenchmark ==
  /\ nodes = <<>> /\ shapes = <<>> /\ declared = <<>> /\ root = 0
  /\ shown = NotShown
  /\ last = Idle
  /\ \E size \in {BatchSizeFirst, BatchSizeLater} : \E count \in 1..MaxIterations :
       \E texts \in InputTexts :
         runner = [NoRun EXCEPT !.pc = "create", !.batchSize = size, !.texts = texts,
                                !.iterations = count]

\* one call of the callback of Array.from: the text is picked and runSingleBenchmark is called
CreateTask ==
  /\ runner.pc = "create"
  /\ runner.created < runner.iterations
  /\ LET i == runner.created
         present == Len(runner.texts) > 0 /\ runner.texts[(i % Len(runner.texts)) + 1]
     IN runner' = IF ~present THEN [runner EXCEPT !.pc = "thrown"]
                  ELSE [runner EXCEPT !.created = i + 1,
                                      !.pc = IF i + 1 = runner.iterations THEN "await" ELSE "create"]
  /\ UNCHANGED <<nodes, shapes, declared, root, shown, last>>

\* the client answers a request (or fails it): runSingleBenchmark returns its result
Respond(i) ==
  /\ i \in InFlight
  /\ runner' = [runner EXCEPT !.completed = @ \cup {i}]
  /\ UNCHANGED <<nodes, shapes, declared, root, shown, last>>

\* await Promise.all(batch) and the loop over batchResults
AwaitBatch ==
  /\ runner.pc = "await"
  /\ Batch \subseteq runner.completed
  /\ runner' = [runner EXCEPT
                  !.totalIterations = @ + Cardinality(Batch),
                  !.pc = IF runner.batchStart + runner.batchSize < runner.iterations
                           THEN "delay" ELSE "averages"]
  /\ UNCHANGED <<nodes, shapes, declared, root, shown, last>>

\* the timer of the delay between batches fires; the loop goes to the next batch
NextBatch ==
  /\ runner.pc = "delay"
  /\ runner' = [runner EXCEPT !.batchStart = @ + runner.batchSize, !.pc = "await"]
  /\ UNCHANGED <<nodes, shapes, declared, root, shown, last>>

NextBenchmark ==
  \/ CreateTask
  \/ \E i \in 1..MaxIterations : Respond(i)
  \/ AwaitBatch
  \/ NextBatch

SpecBenchmark == InitBenchmark /\ [][NextBenchmark]_vars

(***************************************************************************)
(* What the documentation means by a value that satisfies a schema, said   *)
(* without parse: the value the parse is to return (the declared keys the  *)
(* document holds, recursively), and whether the document is valid.        *)
(***************************************************************************)
RECURSIVE Projection(_, _, _)
RECURSIVE ProjectFields(_, _, _, _)
Projection(hp, n, v) ==
  LET node == hp.nodes[n] IN
    CASE node.kind = "array" /\ v.k = "array" ->
           JArr([i \in 1..Len(v.items) |-> Projection(hp, node.itemSchema, v.items[i])])
      [] node.kind = "object" /\ v.k = "object" ->
           JObj(ProjectFields(hp, hp.shapes[node.shape], v.props, <<>>))
      [] OTHER -> v
ProjectFields(hp, entries, props, acc) ==
  IF entries = <<>> THEN acc
  ELSE ProjectFields(hp, Tail(entries), props,
         IF HasOwn(props, Head(entries).key)
           THEN SetProp(acc, Head(entries).key,
                        Projection(hp, Head(entries).val, GetOwn(props, Head(entries).key)))
           ELSE acc)

RECURSIVE Conforms(_, _, _)
\* a declared field is valid: present with a valid value, or optional and absent
FieldValid(hp, entry, props) ==
  IF HasOwn(props, entry.key)
    THEN Conforms(hp, entry.val, GetOwn(props, entry.key))
    ELSE hp.nodes[entry.val].isOptional
Conforms(hp, n, v) ==
  LET node == hp.nodes[n] IN
    /\ CASE node.kind = "array" ->
              /\ v.k = "array"
              /\ \A i \in 1..Len(v.items) : Conforms(hp, node.itemSchema, v.items[i])
         [] node.kind = "object" ->
              /\ v.k = "object"
              /\ \A i \in 1..Len(hp.shapes[node.shape]) :
                   FieldValid(hp, hp.shapes[node.shape][i], v.props)
         [] OTHER -> v.k = node.kind
    /\ RunValidation(node, Projection(hp, n, v))

\* structural equality, the order of object keys ignored
RECURSIVE SameValue(_, _)
SameValue(v, w) ==
  /\ v.k = w.k
  /\ CASE v.k = "array" ->
            /\ Len(v.items) = Len(w.items)
            /\ \A i \in 1..Len(v.items) : SameValue(v.items[i], w.items[i])
       [] v.k = "object" ->
            /\ OwnKeys(v.props) = OwnKeys(w.props)
            /\ \A key \in OwnKeys(v.props) : SameValue(GetOwn(v.props, key), GetOwn(w.props, key))
       [] OTHER -> v = w

(***************************************************************************)
(* The call under observation.                                             *)
(***************************************************************************)
RootNode == nodes[root]
Parsed == last.op = "parse"
Doc == JSONparse(last.input).v
\* a parse call on an object schema whose input is a JSON object
ObjectParsed == Parsed /\ RootNode.kind = "object" /\ JSONparse(last.input).ok /\ Doc.k = "object"
\* the declared fields, as the constructor was given them: key and schema
Fields == [i \in 1..Len(declared[RootNode.shape]) |->
             Entry(declared[RootNode.shape][i], GetOwn(shapes[RootNode.shape], declared[RootNode.shape][i]))]
FieldIds == IF RootNode.kind = "object" THEN 1..Len(Fields) ELSE {}

Entered(path) == \E i \in 1..Len(last.res.trace) :
                   last.res.trace[i].ev = "parse" /\ last.res.trace[i].path = path
Invoked(n, path) == \E i \in 1..Len(last.res.trace) :
                      /\ last.res.trace[i].ev = "validate"
                      /\ last.res.trace[i].path = path
                      /\ last.res.trace[i].node = n

MissingRequired(key) ==
  /\ ~last.res.ok
  /\ last.res.err = <<[Frame("MissingRequiredProperty") EXCEPT !.key = key]>>
  /\ last.res.msg = "Missing required property: " \o key

(***************************************************************************)
(* C1: for an object schema with a field f marked optional, a valid input  *)
(* object that lacks f parses to an object without the key f, and a valid  *)
(* input that holds f parses to an object holding f with its parsed value. *)
(***************************************************************************)
C1_OptionalOmission ==
  ObjectParsed /\ Conforms(Heap, root, Doc) =>
    \A i \in FieldIds :
      nodes[Fields[i].val].isOptional =>
        /\ last.res.ok
        /\ last.res.value.k = "object"
        /\ IF HasOwn(Doc.props, Fields[i].key)
             THEN /\ HasOwn(last.res.value.props, Fields[i].key)
                  /\ GetOwn(last.res.value.props, Fields[i].key)
                       = Projection(Heap, Fields[i].val, GetOwn(Doc.props, Fields[i].key))
             ELSE ~HasOwn(last.res.value.props, Fields[i].key)

(***************************************************************************)
(* C2: for every declared key k whose schema is not optional, an input     *)
(* object that lacks k and is otherwise valid fails with                   *)
(* 'Missing required property: k'.                                         *)
(***************************************************************************)
C2_RequiredOmission ==
  ObjectParsed =>
    \A i \in FieldIds :
      ( /\ ~nodes[Fields[i].val].isOptional
        /\ ~HasOwn(Doc.props, Fields[i].key)
        /\ \A j \in FieldIds \ {i} : FieldValid(Heap, Fields[j], Doc.props) )
      => MissingRequired(Fields[i].key)

(***************************************************************************)
(* C3: the declared fields are examined in the order of declaration and    *)
(* the parse stops at the first invalid one: the failure names the         *)
(* first-declared invalid field and no later-declared field is parsed or   *)
(* validated.                                                              *)
(***************************************************************************)
InvalidFields == {i \in FieldIds : ~FieldValid(Heap, Fields[i], Doc.props)}
FirstInvalid == CHOOSE i \in InvalidFields : \A j \in InvalidFields : i <= j

C3_FailFastOrder ==
  ObjectParsed /\ InvalidFields # {} =>
    /\ ~last.res.ok
    /\ last.res.err[1].e \in {"MissingRequiredProperty", "PropertyFailed"}
    /\ last.res.err[1].key = Fields[FirstInvalid].key
    /\ \A j \in FieldIds :
         j > FirstInvalid =>
           /\ ~Entered(<<Fields[j].key>>)
           /\ ~Invoked(Fields[j].val, <<Fields[j].key>>)

(***************************************************************************)
(* C4 as stated: during ObjectSchema.parse the validator attached to a     *)
(* field's schema is invoked if and only if the field's key is present in  *)
(* the input object.                                                       *)
(***************************************************************************)
HasValidator(n) == nodes[n].validationFn # NoFn

TypeChecks(hp, n, v) == Conforms([hp EXCEPT !.nodes[n].validationFn = NoFn], n, v)

\* the parse failed at a field it examined before the field key
StoppedBefore(key) ==
  /\ ~last.res.ok
  /\ \E p, q \in 1..Len(shapes[RootNode.shape]) :
       /\ p < q
       /\ shapes[RootNode.shape][p].key = last.res.err[1].key
       /\ shapes[RootNode.shape][q].key = key

DeclaredKeys == {Fields[i].key : i \in FieldIds}

C5_ResultKeys ==
  ObjectParsed =>
    /\ (Conforms(Heap, root, Doc) /\ OwnKeys(Doc.props) \ DeclaredKeys # {} => last.res.ok)
    /\ (last.res.ok =>
          /\ last.res.value.k = "object"
          /\ OwnKeys(last.res.value.props) = DeclaredKeys \cap OwnKeys(Doc.props))

(***************************************************************************)
(* C6: for every value v that satisfies the schema, parse(jsonEncode(v))   *)
(* succeeds and returns a value structurally equal to v.                   *)
(***************************************************************************)
\* v is valid and holds no key the schema does not declare
Satisfies(hp, n, v) == Conforms(hp, n, v) /\ SameValue(Projection(hp, n, v), v)

C6_RoundTrip ==
  Parsed /\ JSONparse(last.input).ok /\ last.input = Serialize(Doc) /\ Satisfies(Heap, root, Doc) =>
    /\ last.res.ok
    /\ SameValue(last.res.value, Doc)

(***************************************************************************)
(* C7: for each of the five variants stringify() returns the base type     *)
(* text, followed by ' /* ' + hints joined by ', ' + ' */' when a          *)
(* validator or the optional flag is set: the validator's text first, then *)
(* the word 'optional'; the suffix is one function of the two for every    *)
(* variant.                                                                *)
(***************************************************************************)
HintSuffix(node) ==
  CASE node.validationFn # NoFn /\ node.isOptional ->
         " /* " \o FnText(node.validationFn) \o ", optional */"
    [] node.validationFn # NoFn /\ ~node.isOptional ->
         " /* " \o FnText(node.validationFn) \o " */"
    [] node.validationFn = NoFn /\ node.isOptional -> " /* optional */"
    [] OTHER -> ""

BaseText(hp, n) ==
  CASE hp.nodes[n].kind = "array" -> ArrayBaseType(hp, hp.nodes[n])
    [] hp.nodes[n].kind = "object" -> ObjectBaseType(hp, hp.nodes[n])
    [] OTHER -> hp.nodes[n].kind

Stringified == last.op = "stringify"

C7_HintSuffix ==
  Stringified =>
    /\ last.text = BaseText(Heap, root) \o HintSuffix(RootNode)
    /\ \A n \in DOMAIN nodes : Stringify(Heap, n) = BaseText(Heap, n) \o HintSuffix(nodes[n])

\* an object schema with a validator and the optional flag, whose field also has both
C7_Witness ==
  /\ Stringified
  /\ RootNode.kind = "object"
  /\ \A n \in DOMAIN nodes : nodes[n].validationFn # NoFn /\ nodes[n].isOptional
  /\ Len(nodes) > 1

(***************************************************************************)
(* C8: ObjectSchema.stringify() emits the fields in exactly the order in   *)
(* which the keys were given at construction, for every set of keys,       *)
(* digit strings included.                                                 *)
(***************************************************************************)
C8_DeclaredOrder ==
  Stringified /\ RootNode.kind = "object" =>
    last.text =
      "{ " \o Join([i \in 1..Len(Fields) |->
                      Fields[i].key \o ": " \o Stringify(Heap, Fields[i].val)], ", ")
           \o " }" \o HintSuffix(RootNode)

(***************************************************************************)
(* C9: two stringify() calls on the same schema with no validate() or      *)
(* optional() call in between, and any parse() or stringify() calls in     *)
(* between, return the same text.                                          *)
(***************************************************************************)
C9_Deterministic ==
  Stringified /\ last.prev # NotShown => last.text = last.prev.text

\* a second stringify() of a hinted schema, a parse() between the two
C9_Witness ==
  /\ Stringified
  /\ last.prev # NotShown
  /\ last.prev.parsed
  /\ RootNode.validationFn # NoFn

(***************************************************************************)
(* C10: null satisfies no schema: parse('null') fails with a type mismatch *)
(* for every variant, and a declared field present with the value null is  *)
(* parsed, not skipped: the parse fails with the property failure wrapping *)
(* the type mismatch, for an optional field too; only a field whose key is *)
(* absent is skipped.                                                      *)
(***************************************************************************)
NullText == <<TWord("null")>>
Mismatch(expected, actual) == [Frame("TypeMismatch") EXCEPT !.expected = expected, !.actual = actual]

ArrayParsed == Parsed /\ RootNode.kind = "array" /\ JSONparse(last.input).ok /\ Doc.k = "array"
ItemPath(i) == <<ToString(i - 1)>>
BadItems == {i \in 1..Len(Doc.items) : ~Conforms(Heap, RootNode.itemSchema, Doc.items[i])}
FirstBad == CHOOSE i \in BadItems : \A j \in BadItems : i <= j
\* something below the element i was parsed or validated
Touched(i) == \E e \in 1..Len(last.res.trace) :
                /\ Len(last.res.trace[e].path) >= 1
                /\ last.res.trace[e].path[1] = ToString(i - 1)

C11_ArrayFailFast ==
  ArrayParsed /\ BadItems # {} =>
    /\ ~last.res.ok
    /\ last.res.value = JUndefined
    /\ last.res.err[1] = [Frame("ArrayItemFailed") EXCEPT !.index = FirstBad - 1]
    /\ \A j \in 1..Len(Doc.items) : j > FirstBad => ~Touched(j)
    /\ \A j \in 1..Len(Doc.items) : j < FirstBad => Entered(ItemPath(j))

\* the first element is bad and a further element follows it
C11_Witness ==
  /\ ArrayParsed
  /\ BadItems # {}
  /\ FirstBad < Len(Doc.items)
  /\ HasValidator(RootNode.itemSchema)

(***************************************************************************)
(* C12: no failure is recovered: when the parse of an array element or of  *)
(* a present object field fails, the enclosing parse fails, and the text   *)
(* of the failure is one positional prefix per nesting level, outermost    *)
(* first, followed by the message of the leaf failure.                     *)
(***************************************************************************)
ChildText(v) == AsText(JSONstringify(v))
IsWrapper(f) == f.e \in {"PropertyFailed", "ArrayItemFailed"}
\* the position a chain of failures points at
PathOf(frames) ==
  [i \in 1..(Len(frames) - 1) |->
     IF frames[i].e = "PropertyFailed" THEN frames[i].key ELSE ToString(frames[i].index)]

\* the text a chain of failures is to read as, for the value v under schema n
RECURSIVE ErrText(_, _, _, _)
ErrText(hp, n, v, frames) ==
  LET f == Head(frames)
      node == hp.nodes[n]
  IN CASE f.e = "PropertyFailed" ->
            "Property '" \o f.key \o "': "
              \o ErrText(hp, GetOwn(hp.shapes[node.shape], f.key), GetProp(v.props, f.key), Tail(frames))
       [] f.e = "ArrayItemFailed" ->
            "Array item at index " \o ToString(f.index) \o ": "
              \o ErrText(hp, node.itemSchema, v.items[f.index + 1], Tail(frames))
       [] f.e = "TypeMismatch" -> "Expected " \o f.expected \o ", got " \o f.actual
       [] f.e = "MissingRequiredProperty" -> "Missing required property: " \o f.key
       [] f.e = "InvalidJson" -> "Invalid JSON: " \o SyntaxErrorMessage
       [] OTHER ->
            (CASE node.kind = "array" -> "Array validation failed for value: "
               [] node.kind = "object" -> "Object validation failed for value: "
               [] OTHER -> "Validation failed for value: ")
              \o Render(Serialize(Projection(hp, n, v)))

C12_NoRecovery ==
  Parsed =>
    /\ ArrayParsed =>
         \A i \in 1..Len(Doc.items) :
           ~ParseNode(Heap, RootNode.itemSchema, ChildText(Doc.items[i]), ItemPath(i)).ok
             => ~last.res.ok
    /\ ObjectParsed =>
         \A i \in FieldIds :
           ( /\ HasOwn(Doc.props, Fields[i].key)
             /\ ~ParseNode(Heap, Fields[i].val, ChildText(GetOwn(Doc.props, Fields[i].key)),
                           <<Fields[i].key>>).ok )
             => ~last.res.ok
    /\ ~last.res.ok =>
         /\ Len(last.res.err) >= 1
         /\ \A i \in 1..Len(last.res.err) : IsWrapper(last.res.err[i]) <=> i < Len(last.res.err)
         /\ Len(last.res.err) > 1 => Entered(PathOf(last.res.err))
         /\ last.res.msg = ErrText(Heap, root, Doc, last.res.err)

\* a failure two levels down: a property prefix, an index prefix, the leaf message
C12_Witness ==
  /\ Parsed
  /\ ~last.res.ok
  /\ Len(last.res.err) = 3
  /\ last.res.err[1].e = "PropertyFailed"
  /\ last.res.err[2].e = "ArrayItemFailed"

(***************************************************************************)
(* C13: for the string, number and boolean schemas parse(text) has exactly *)
(* one of four outcomes, decided in this order: InvalidJson iff the text   *)
(* is not valid JSON; else TypeMismatch 'Expected T, got K' iff the kind   *)
(* of the value is not the primitive's; else ValidationFailed iff a        *)
(* validator is attached and returns false; else the value, unchanged.     *)
(***************************************************************************)
PrimitiveParsed == Parsed /\ RootNode.kind \in LeafKinds

C13_PrimitiveOutcome ==
  PrimitiveParsed =>
    IF ~JSONparse(last.input).ok
      THEN /\ ~last.res.ok
           /\ last.res.err = <<Frame("InvalidJson")>>
    ELSE IF Doc.k # RootNode.kind
      THEN /\ ~last.res.ok
           /\ last.res.err = <<Mismatch(RootNode.kind, TypeOf(Doc))>>
           /\ last.res.msg = "Expected " \o RootNode.kind \o ", got " \o TypeOf(Doc)
           /\ ~Invoked(root, <<>>)
    ELSE IF HasValidator(root) /\ ~FnApply(RootNode.validationFn, Doc)
      THEN /\ ~last.res.ok
           /\ last.res.err = <<Frame("ValidationFailed")>>
           /\ last.res.msg = "Validation failed for value: " \o Render(Serialize(Doc))
    ELSE /\ last.res.ok
         /\ last.res.value = Doc

\* a value of the right kind was rejected by the validator
C13_Witness ==
  /\ PrimitiveParsed
  /\ JSONparse(last.input).ok
  /\ Doc.k = RootNode.kind
  /\ HasValidator(root)
  /\ ~last.res.ok

(***************************************************************************)
(* C14: the optional flag has no effect on parse outside the field mapping *)
(* of an object schema: as the root schema, or as the item schema of an    *)
(* array schema, a schema gives the same outcome for every text whether or *)
(* not it is marked optional.                                              *)
(***************************************************************************)
\* the heap with the optional flag of node n set to b
WithOptional(hp, n, b) == [hp EXCEPT !.nodes[n].isOptional = b]
Outcome(r) == [ok |-> r.ok, value |-> r.value, msg |-> r.msg, err |-> r.err]

C14_OptionalInert ==
  Parsed =>
    /\ \A b \in BOOLEAN :
         Outcome(ParseNode(WithOptional(Heap, root, b), root, last.input, <<>>)) = Outcome(last.res)
    /\ RootNode.kind = "array" =>
         \A b \in BOOLEAN :
           Outcome(ParseNode(WithOptional(Heap, RootNode.itemSchema, b), root, last.input, <<>>))
             = Outcome(last.res)

\* an array whose item schema is optional was given a null element
C14_Witness ==
  /\ ArrayParsed
  /\ nodes[RootNode.itemSchema].isOptional
  /\ RootNode.isOptional
  /\ \E i \in 1..Len(Doc.items) : Doc.items[i] = JNull
  /\ ~last.res.ok

(***************************************************************************)
(* C15: validate and optional commute: node.validate(f).optional() and     *)
(* node.optional().validate(f) leave the node in the same state, with the  *)
(* same stringify() text, the validator's text first and then 'optional',  *)
(* and the same parse outcome.                                             *)
(***************************************************************************)
WithNodes(nds) == [nodes |-> nds, shapes |-> shapes, declared |-> declared]
ValidateThenOptional(n, fn) == MarkOptional(SetValidator(nodes, n, fn), n)
OptionalThenValidate(n, fn) == SetValidator(MarkOptional(nodes, n), n, fn)

C15_MutatorsCommute ==
  \A n \in DOMAIN nodes : \A fn \in FnsFor(nodes[n].kind) :
    /\ ValidateThenOptional(n, fn) = OptionalThenValidate(n, fn)
    /\ Stringify(WithNodes(OptionalThenValidate(n, fn)), n)
         = BaseText(Heap, n) \o " /* " \o FnText(fn) \o ", optional */"
    /\ Stringify(WithNodes(ValidateThenOptional(n, fn)), root)
         = Stringify(WithNodes(OptionalThenValidate(n, fn)), root)
    /\ Parsed =>
         Outcome(ParseNode(WithNodes(ValidateThenOptional(n, fn)), root, last.input, <<>>))
           = Outcome(ParseNode(WithNodes(OptionalThenValidate(n, fn)), root, last.input, <<>>))
    /\ (last.op = "validate" /\ nodes[last.node].isOptional) \/ (last.op = "optional" /\ HasValidator(last.node))
         => Stringify(Heap, last.node)
              = BaseText(Heap, last.node) \o " /* " \o FnText(nodes[last.node].validationFn)
                  \o ", optional */"

\* validate() has just been called on a node that was already optional
C15_Witness ==
  /\ last.op = "validate"
  /\ nodes[last.node].isOptional
  /\ nodes[last.node].validationFn = last.fn

(***************************************************************************)
(* C16: last write wins for validate: after any sequence of validate calls *)
(* on a node its validator is the function of the last call alone; a parse *)
(* invokes that function and no earlier one, and stringify shows the text  *)
(* of that function only.                                                  *)
(***************************************************************************)
HeapAfter == [nodes |-> nodes', shapes |-> shapes', declared |-> declared']

\* the function of the last validate() on n, once this step is taken
LastWritten(n) ==
  IF last'.op = "validate" /\ last'.node = n THEN last'.fn ELSE nodes[n].validationFn

LastWriteWinsStep ==
  /\ \A n \in DOMAIN nodes : nodes'[n].validationFn = LastWritten(n)
  /\ last'.op = "validate" =>
       Stringify(HeapAfter, last'.node)
         = BaseText(HeapAfter, last'.node) \o " /* " \o FnText(last'.fn)
             \o (IF nodes'[last'.node].isOptional THEN ", optional" ELSE "") \o " */"
  /\ last'.op = "parse" =>
       \A i \in 1..Len(last'.res.trace) :
         LET e == last'.res.trace[i] IN
           e.ev = "validate" =>
             /\ e.fn = LastWritten(e.node)
             /\ \A j \in 1..Len(last'.res.trace) :
                  (j # i /\ last'.res.trace[j].ev = "validate" /\ last'.res.trace[j].node = e.node
                     /\ last'.res.trace[j].path = e.path) => last'.res.trace[j].arg # e.arg
  /\ (last'.op = "parse" /\ last'.res.ok /\ nodes[root].validationFn # NoFn) =>
       FnApply(LastWritten(root), last'.res.value)

C16_LastWriteWins == [][LastWriteWinsStep]_vars

\* validate() has just replaced a validator by a different one
C16_Witness ==
  /\ last.op = "validate"
  /\ last.old # NoFn
  /\ last.old # last.fn
  /\ nodes[last.node].validationFn = last.fn

(***************************************************************************)
(* C17: parse and stringify do not mutate the schema: after a parse call,  *)
(* successful or failing, and after a stringify call, every node has the   *)
(* validator, the optional flag and the children it had before the call.   *)
(***************************************************************************)
SchemaUnchangedStep ==
  last'.op \in {"parse", "stringify"} =>
    /\ \A n \in DOMAIN nodes :
         /\ nodes'[n].validationFn = nodes[n].validationFn
         /\ nodes'[n].isOptional = nodes[n].isOptional
         /\ nodes'[n].itemSchema = nodes[n].itemSchema
         /\ nodes'[n].shape = nodes[n].shape
    /\ DOMAIN nodes' = DOMAIN nodes
    /\ shapes' = shapes
    /\ declared' = declared
    /\ root' = root
    /\ \A toks \in {last'.input} :
         last'.op = "parse" => ParseNode(HeapAfter, root', toks, <<>>) = last'.res
    /\ last'.op = "stringify" => Stringify(HeapAfter, root') = last'.text

C17_NoMutation == [][SchemaUnchangedStep]_vars

\* a failing parse of a schema that carries a validator and an optional flag
C17_Witness ==
  /\ Parsed
  /\ ~last.res.ok
  /\ Entered(<<>>)
  /\ \E n \in DOMAIN nodes : HasValidator(n) /\ nodes[n].isOptional

(***************************************************************************)
(* C18: stringify is compositional over the schema tree: an array of S is  *)
(* '[' + stringify(S) + ']' followed by the array's own hint comment, and  *)
(* an object of k1: S1, ..., kn: Sn is '{ ' + the texts 'ki: ' +           *)
(* stringify(Si) joined by ', ' + ' }' followed by the object's own hint   *)
(* comment, each child's text holding the child's own hint comment; there  *)
(* is no trailing comma, and an object with no field gives '{  }'.         *)
(***************************************************************************)
\* the texts 'ki: ' + stringify(Si) of the fields from position i on, joined by ', '
RECURSIVE FieldTexts(_, _)
FieldTexts(n, i) ==
  LET given == declared[nodes[n].shape] IN
    IF i > Len(given) THEN ""
    ELSE given[i] \o ": " \o Stringify(Heap, GetOwn(shapes[nodes[n].shape], given[i]))
           \o (IF i < Len(given) THEN ", " ELSE "") \o FieldTexts(n, i + 1)

Composed(n) ==
  CASE nodes[n].kind = "array" ->
         "[" \o Stringify(Heap, nodes[n].itemSchema) \o "]" \o HintSuffix(nodes[n])
    [] nodes[n].kind = "object" ->
         "{ " \o FieldTexts(n, 1) \o " }" \o HintSuffix(nodes[n])
    [] OTHER -> nodes[n].kind \o HintSuffix(nodes[n])

C18_Compositional ==
  Stringified =>
    /\ last.text = Composed(root)
    /\ \A n \in DOMAIN nodes :
         /\ Stringify(Heap, n) = Composed(n)
         /\ (nodes[n].kind = "object" /\ declared[nodes[n].shape] = <<>>) =>
              Stringify(Heap, n) = "{  }" \o HintSuffix(nodes[n])

(***************************************************************************)
(* C19: an object-level validator is invoked at most once per parse of the *)
(* object schema, only after every declared field has been processed       *)
(* without failure, and its argument is the assembled result object, which *)
(* holds only declared fields that were present in the input; when it      *)
(* returns false the parse fails with 'Object validation failed' and no    *)
(* value is returned.                                                      *)
(***************************************************************************)
WithoutValidator(hp, n) == [hp EXCEPT !.nodes[n].validationFn = NoFn]

\* the positions of the trace at which the validator of the root is invoked
RootCalls == {i \in 1..Len(last.res.trace) :
                /\ last.res.trace[i].ev = "validate"
                /\ last.res.trace[i].node = root
                /\ last.res.trace[i].path = <<>>}

\* the parse of the same text by the same schema without its root validator
FieldsOnly == ParseNode(WithoutValidator(Heap, root), root, last.input, <<>>)

C19_ObjectValidator ==
  ObjectParsed /\ HasValidator(root) =>
    /\ Cardinality(RootCalls) <= 1
    /\ RootCalls # {} <=> FieldsOnly.ok
    /\ \A i \in RootCalls :
         LET arg == last.res.trace[i].arg IN
           /\ i = Len(last.res.trace)
           /\ \A f \in FieldIds :
                HasOwn(Doc.props, Fields[f].key) =>
                  \E j \in 1..(i - 1) : /\ last.res.trace[j].ev = "parse"
                                        /\ last.res.trace[j].path = <<Fields[f].key>>
           /\ \A f \in FieldIds : FieldValid(Heap, Fields[f], Doc.props)
           /\ arg = FieldsOnly.value
           /\ arg = Projection(Heap, root, Doc)
           /\ OwnKeys(arg.props) = DeclaredKeys \cap OwnKeys(Doc.props)
           /\ last.res.ok = FnApply(RootNode.validationFn, arg)
           /\ last.res.ok => last.res.value = arg
           /\ ~last.res.ok =>
                /\ last.res.msg = "Object validation failed for value: " \o Render(Serialize(arg))
                /\ last.res.value = JUndefined

\* the validator rejects a result from which an undeclared key of the input and an
\* absent optional field are both missing
C19_Witness ==
  /\ ObjectParsed /\ HasValidator(root)
  /\ RootCalls # {}
  /\ ~last.res.ok
  /\ OwnKeys(Doc.props) \ DeclaredKeys # {}
  /\ \E f \in FieldIds : ~HasOwn(Doc.props, Fields[f].key) /\ nodes[Fields[f].val].isOptional

(***************************************************************************)
(* C20: an array-level validator is invoked only when every element has    *)
(* been parsed successfully, after all element-level validators have run,  *)
(* with the full assembled array (the empty array for the input '[]'); it  *)
(* is not invoked at all when any element fails; when it returns false the *)
(* parse fails with 'Array validation failed'.                             *)
(***************************************************************************)
\* the elements as their own parses return them, in the order of the input
Assembled == JArr([i \in 1..Len(Doc.items) |->
                     ParseNode(Heap, RootNode.itemSchema, Serialize(Doc.items[i]), ItemPath(i)).value])

C20_ArrayValidator ==
  ArrayParsed /\ HasValidator(root) =>
    /\ Cardinality(RootCalls) <= 1
    /\ RootCalls # {} <=> BadItems = {}
    /\ \A i \in RootCalls :
         LET arg == last.res.trace[i].arg IN
           /\ i = Len(last.res.trace)
           /\ \A k \in 1..Len(Doc.items) :
                /\ \E j \in 1..(i - 1) : /\ last.res.trace[j].ev = "parse"
                                         /\ last.res.trace[j].path = ItemPath(k)
                /\ HasValidator(RootNode.itemSchema) =>
                     \E j \in 1..(i - 1) : /\ last.res.trace[j].ev = "validate"
                                           /\ last.res.trace[j].node = RootNode.itemSchema
                                           /\ last.res.trace[j].path = ItemPath(k)
           /\ arg = Assembled
           /\ Len(arg.items) = Len(Doc.items)
           /\ Doc.items = <<>> => arg = JArr(<<>>)
           /\ last.res.ok = FnApply(RootNode.validationFn, arg)
           /\ last.res.ok => last.res.value = arg
           /\ ~last.res.ok =>
                /\ last.res.msg = "Array validation failed for value: " \o Render(Serialize(arg))
                /\ last.res.value = JUndefined

\* the validator of the array rejects the empty array of the input '[]'
C20_Witness ==
  /\ ArrayParsed /\ HasValidator(root)
  /\ Doc.items = <<>>
  /\ RootCalls # {}
  /\ ~last.res.ok
  /\ last.res.msg = "Array validation failed for value: []"

\* the validator of the array accepts elements whose own validators ran before it
C20_WitnessElements ==
  /\ ArrayParsed /\ HasValidator(root) /\ HasValidator(RootNode.itemSchema)
  /\ Len(Doc.items) = MaxItems
  /\ RootCalls # {}
  /\ last.res.ok

(***************************************************************************)
(* C21: the actual kind named in a TypeMismatch depends on the schema      *)
(* variant: ObjectSchema.parse reports 'array' for an array and the host   *)
(* type tag otherwise ('object' for null); ArraySchema.parse and the       *)
(* primitive schemas report the host type tag, so that a JSON object, an   *)
(* array and null are all reported as 'object' by them.                    *)
(***************************************************************************)
\* the host type tag of a JSON value, as the documentation lists it
HostTag(v) == IF v.k \in {"object", "array", "null"} THEN "object" ELSE v.k

ReportedKind(kind, v) ==
  IF kind = "object" /\ v.k = "array" THEN "array" ELSE HostTag(v)

\* the last frame of a failure: the failure of the innermost node reached
LeafFrame == last.res.err[Len(last.res.err)]

C21_MismatchKind ==
  /\ (Parsed /\ JSONparse(last.input).ok /\ Doc.k # RootNode.kind) =>
       /\ ~last.res.ok
       /\ last.res.err = <<Mismatch(RootNode.kind, ReportedKind(RootNode.kind, Doc))>>
       /\ last.res.msg = "Expected " \o RootNode.kind \o ", got " \o ReportedKind(RootNode.kind, Doc)
  /\ (Parsed /\ ~last.res.ok /\ LeafFrame.e = "TypeMismatch") =>
       /\ LeafFrame.actual \in {"string", "number", "boolean", "object", "array"}
       /\ LeafFrame.actual = "array" => LeafFrame.expected = "object"
       /\ LeafFrame.actual # LeafFrame.expected \/ LeafFrame.expected = "object"

\* an array schema or a primitive schema is given null, an object schema an array
C21_Witness ==
  /\ Parsed /\ ~last.res.ok
  /\ \/ RootNode.kind = "array" /\ last.input = NullText /\ LeafFrame.actual = "object"
     \/ RootNode.kind = "object" /\ JSONparse(last.input).ok /\ Doc.k = "array"
          /\ LeafFrame.actual = "array"

\* a primitive nested in an object is given an array and reports 'object'
C21_WitnessNested ==
  /\ ObjectParsed /\ ~last.res.ok
  /\ Len(last.res.err) > 1
  /\ LeafFrame.e = "TypeMismatch" /\ LeafFrame.actual = "object" /\ LeafFrame.expected # "object"

(***************************************************************************)
(* C22: a schema's children are fixed at construction: once object(shape)  *)
(* or array(item) has returned, only validate() and optional() calls       *)
(* change what stringify() returns or how parse() behaves; a later change  *)
(* by the caller to the shape mapping passed to object() (a field added,   *)
(* removed or replaced) does not change the schema.                        *)
(***************************************************************************)
ChildrenFixedStep ==
  last'.op \notin {"validate", "optional"} =>
    /\ Stringify(HeapAfter, root') = Stringify(Heap, root)
    /\ \A toks \in CallerInputs :
         Outcome(ParseNode(HeapAfter, root', toks, <<>>)) = Outcome(ParseNode(Heap, root, toks, <<>>))

C22_ChildrenFixed == [][ChildrenFixedStep]_vars

\* the caller has changed the shape object after construction
C22_ShapeChanged ==
  /\ last.op \in {"assign", "delete"}
  /\ [i \in 1..Len(shapes[RootNode.shape]) |-> shapes[RootNode.shape][i].key] # declared[RootNode.shape]

(***************************************************************************)
(* C23: toString() of a schema returns its compact type notation           *)
(* ('string', 'number', 'boolean', '[item]', '{ key: type, ... }'), and    *)
(* returns that same text when a validator is attached: validation hints   *)
(* never appear in toString().                                             *)
(***************************************************************************)
\* the notation of the fields of a shape from position i on
RECURSIVE Notation(_)
RECURSIVE FieldNotation(_, _)
FieldNotation(shape, i) ==
  IF i > Len(shape) THEN ""
  ELSE shape[i].key \o ": " \o Notation(shape[i].val)
         \o (IF i < Len(shape) THEN ", " ELSE "") \o FieldNotation(shape, i + 1)
Notation(n) ==
  CASE nodes[n].kind = "array" -> "[" \o Notation(nodes[n].itemSchema) \o "]"
    [] nodes[n].kind = "object" -> "{ " \o FieldNotation(shapes[nodes[n].shape], 1) \o " }"
    [] OTHER -> nodes[n].kind

\* the schema as it was before any validate() call
Unvalidated == [Heap EXCEPT !.nodes = [n \in DOMAIN nodes |-> [nodes[n] EXCEPT !.validationFn = NoFn]]]

C23_ToStringNotation ==
  /\ last.op = "toString" => last.text = Notation(root)
  /\ \A n \in DOMAIN nodes :
       /\ SchemaToString(Heap, n) = Notation(n)
       /\ SchemaToString(Heap, n) = SchemaToString(Unvalidated, n)

\* toString() of an object schema with a validator on it and on every field
C23_Witness ==
  /\ last.op = "toString"
  /\ RootNode.kind = "object"
  /\ Len(nodes) > 1
  /\ \A n \in DOMAIN nodes : HasValidator(n)

(***************************************************************************)
(* C24: each mutator changes only its own attribute and returns the node   *)
(* it was called on: validate(fn) replaces the validator and leaves the    *)
(* optional flag and the children unchanged; optional() sets the optional  *)
(* flag and leaves the validator and the children unchanged; neither       *)
(* creates a new node.                                                     *)
(***************************************************************************)
SameChildren(n) ==
  /\ nodes'[n].kind = nodes[n].kind
  /\ nodes'[n].itemSchema = nodes[n].itemSchema
  /\ nodes'[n].shape = nodes[n].shape

MutatorFrameStep ==
  last'.op \in {"validate", "optional"} =>
    /\ DOMAIN nodes' = DOMAIN nodes
    /\ shapes' = shapes /\ root' = root
    /\ last'.ret = last'.node
    /\ \A n \in DOMAIN nodes : n # last'.node => nodes'[n] = nodes[n]
    /\ SameChildren(last'.node)
    /\ last'.op = "validate" =>
         /\ nodes'[last'.node].validationFn = last'.fn
         /\ nodes'[last'.node].isOptional = nodes[last'.node].isOptional
    /\ last'.op = "optional" =>
         /\ nodes'[last'.node].isOptional
         /\ nodes'[last'.node].validationFn = nodes[last'.node].validationFn

C24_MutatorFrame == [][MutatorFrameStep]_vars

\* optional() has just been called on a node with children that carries a validator
C24_Witness ==
  /\ last.op = "optional"
  /\ last.ret = last.node
  /\ nodes[last.node].kind \in {"array", "object"}
  /\ HasValidator(last.node)
  /\ nodes[last.node].isOptional

(***************************************************************************)
(* C25: parse terminates, with a value or a failure, for every finite      *)
(* input text and every schema tree built with the constructors, and the   *)
(* nesting depth of recursive parse calls never exceeds the nesting depth  *)
(* of the schema, however deeply the input JSON is nested.                 *)
(***************************************************************************)
RECURSIVE SchemaDepth(_)
RECURSIVE DeepestField(_, _)
DeepestField(shape, i) ==
  IF i > Len(shape) THEN 0
  ELSE LET d == SchemaDepth(shape[i].val)
           rest == DeepestField(shape, i + 1)
       IN IF d > rest THEN d ELSE rest
SchemaDepth(n) ==
  CASE nodes[n].kind = "array" -> 1 + SchemaDepth(nodes[n].itemSchema)
    [] nodes[n].kind = "object" -> 1 + DeepestField(shapes[nodes[n].shape], 1)
    [] OTHER -> 1

RECURSIVE ValueDepth(_)
RECURSIVE DeepestOf(_, _)
DeepestOf(vals, i) ==
  IF i > Len(vals) THEN 0
  ELSE LET d == ValueDepth(vals[i])
           rest == DeepestOf(vals, i + 1)
       IN IF d > rest THEN d ELSE rest
ValueDepth(v) ==
  CASE v.k = "array" -> 1 + DeepestOf(v.items, 1)
    [] v.k = "object" -> 1 + DeepestOf([i \in 1..Len(v.props) |-> v.props[i].val], 1)
    [] OTHER -> 1

\* the calls of parse made during the last parse, by position in the trace
ParseCalls == {i \in 1..Len(last.res.trace) : last.res.trace[i].ev = "parse"}

C25_ParseDepth ==
  Parsed =>
    /\ last.res.ok => last.res.msg = "" /\ last.res.err = <<>>
    /\ ~last.res.ok => last.res.value = JUndefined /\ last.res.msg # "" /\ last.res.err # <<>>
    /\ ParseCalls # {}
    /\ \A i \in ParseCalls :
         Len(last.res.trace[i].path) + SchemaDepth(last.res.trace[i].node) <= SchemaDepth(root)
    /\ \A i \in ParseCalls : Len(last.res.trace[i].path) + 1 <= SchemaDepth(root)
    /\ \A i, j \in ParseCalls : i # j => last.res.trace[i].path # last.res.trace[j].path
    /\ JSONparse(last.input).ok => Cardinality(ParseCalls) <= Len(last.input)

\* an input nested more deeply than the schema it is parsed by
C25_Witness ==
  /\ Parsed
  /\ JSONparse(last.input).ok
  /\ ValueDepth(Doc) > SchemaDepth(root)
  /\ SchemaDepth(root) > 1
  /\ \E i \in ParseCalls : Len(last.res.trace[i].path) + 1 = SchemaDepth(root)

(***************************************************************************)
(* C26: during parse a node's validator is invoked only with a value that  *)
(* has passed that node's structural checks: a value of the primitive's    *)
(* own kind, an array whose every element was returned by the item         *)
(* schema's parse, or an object whose every key was returned by its field  *)
(* schema's parse.  It is never invoked with null, with a value of another *)
(* kind, or after an InvalidJson or TypeMismatch at that node.             *)
(***************************************************************************)
\* v is a value the parse of schema n returns
Returned(n, v) ==
  LET r == ParseNode(Heap, n, Serialize(v), <<>>) IN r.ok /\ r.value = v

Checked(n, v) ==
  CASE nodes[n].kind = "array" ->
         /\ v.k = "array"
         /\ \A i \in 1..Len(v.items) : Returned(nodes[n].itemSchema, v.items[i])
    [] nodes[n].kind = "object" ->
         /\ v.k = "object"
         /\ \A i \in 1..Len(v.props) :
              /\ HasOwn(shapes[nodes[n].shape], v.props[i].key)
              /\ Returned(GetOwn(shapes[nodes[n].shape], v.props[i].key), v.props[i].val)
    [] OTHER -> v.k = nodes[n].kind

ValidatorCalls == {i \in 1..Len(last.res.trace) : last.res.trace[i].ev = "validate"}

C26_ValidatorArgument ==
  Parsed =>
    /\ \A i \in ValidatorCalls :
         LET e == last.res.trace[i] IN
           /\ e.arg.k # "null"
           /\ e.arg.k = nodes[e.node].kind
           /\ Checked(e.node, e.arg)
           /\ HasValidator(e.node)
           /\ \E j \in 1..(i - 1) : /\ last.res.trace[j].ev = "parse"
                                    /\ last.res.trace[j].node = e.node
                                    /\ last.res.trace[j].path = e.path
    /\ (~last.res.ok /\ LeafFrame.e \in {"InvalidJson", "TypeMismatch"}) =>
         LET f == last.res.trace[Len(last.res.trace)] IN
           /\ f.ev = "parse"
           /\ \A i \in ValidatorCalls :
                ~(last.res.trace[i].node = f.node /\ last.res.trace[i].path = f.path)

\* a node with a validator is given null, and the validator is not invoked
C26_Witness ==
  /\ Parsed /\ last.input = NullText
  /\ HasValidator(root)
  /\ ValidatorCalls = {}
  /\ ~last.res.ok

\* the validators of an object and of its field are both invoked
C26_WitnessNested ==
  /\ ObjectParsed
  /\ Cardinality(ValidatorCalls) > 1
  /\ \E i \in ValidatorCalls : last.res.trace[i].node = root /\ Len(last.res.trace[i].arg.props) > 0

(***************************************************************************)
(* C27: when the top-level text is syntactically valid JSON, no failure at *)
(* any nesting level is an InvalidJson failure: the text obtained by       *)
(* re-serialising a property value treated as present, or an array         *)
(* element, is always accepted by the child's JSON parse, so that 'Invalid *)
(* JSON' is only ever reported unwrapped, never after a 'Property' or      *)
(* 'Array item at index' prefix.  This holds for every declared field key. *)
(***************************************************************************)
C27_NoNestedInvalidJson ==
  Parsed /\ ~last.res.ok =>
    /\ JSONparse(last.input).ok => \A i \in 1..Len(last.res.err) : last.res.err[i].e # "InvalidJson"
    /\ \A i \in 1..Len(last.res.err) : last.res.err[i].e = "InvalidJson" => Len(last.res.err) = 1
    /\ ~JSONparse(last.input).ok =>
         /\ last.res.err = <<Frame("InvalidJson")>>
         /\ last.res.msg = "Invalid JSON: " \o SyntaxErrorMessage

(***************************************************************************)
(* C28: a schema node referenced from several places (as the field schema  *)
(* of two object schemas, or of two fields of one) is a single shared      *)
(* node: a validate() or optional() call made through any reference        *)
(* changes the stringify() text and the parse behaviour of every schema    *)
(* that contains the node, including schemas constructed before the call.  *)
(***************************************************************************)
ObjectNodes == {o \in DOMAIN nodes : nodes[o].kind = "object"}

\* the text and the verdict of the shared leaf as the caller's reference gives them
SharedText == nodes[SharedLeaf].kind \o HintSuffix(nodes[SharedLeaf])
SharedAccepts(v) ==
  /\ v.k = nodes[SharedLeaf].kind
  /\ HasValidator(SharedLeaf) => FnApply(nodes[SharedLeaf].validationFn, v)

\* the object whose every key of the schema o carries the value v
AllFields(o, v) == JObj([i \in 1..Len(declared[nodes[o].shape]) |-> Entry(declared[nodes[o].shape][i], v)])

C28_SharedNode ==
  \A o \in ObjectNodes :
    LET keys == declared[nodes[o].shape] IN
      /\ Stringify(Heap, o)
           = "{ " \o Join([i \in 1..Len(keys) |-> keys[i] \o ": " \o SharedText], ", ") \o " }"
               \o HintSuffix(nodes[o])
      /\ \A v \in PropVals :
           ParseNode(WithoutValidator(Heap, o), o, Serialize(AllFields(o, v)), <<>>).ok = SharedAccepts(v)
      /\ ParseNode(WithoutValidator(Heap, o), o, Serialize(JObj(<<>>)), <<>>).ok = nodes[SharedLeaf].isOptional
      /\ (Stringified /\ o = root) => last.text = Stringify(Heap, o)

\* the shared leaf has got a validator and the optional flag, and the schema is printed
C28_Witness ==
  /\ Stringified
  /\ HasValidator(SharedLeaf) /\ nodes[SharedLeaf].isOptional
  /\ Cardinality(ObjectNodes) > 1

(***************************************************************************)
(* C29: the optional flag is false on every newly constructed node and is  *)
(* monotone: once optional() has been called on a node the flag stays true *)
(* after any further sequence of validate, optional, stringify and parse   *)
(* calls; no operation of the interface clears it.                         *)
(***************************************************************************)
\* the nodes as the factories return them
Constructed == UNION {{t.hp.nodes[n] : n \in DOMAIN t.hp.nodes} : t \in Schemas}

OptionalKeptStep ==
  /\ \A node \in Constructed : ~node.isOptional
  /\ DOMAIN nodes' = DOMAIN nodes
  /\ \A n \in DOMAIN nodes : nodes[n].isOptional => nodes'[n].isOptional
  /\ \A n \in DOMAIN nodes :
       nodes'[n].isOptional # nodes[n].isOptional => last'.op = "optional" /\ last'.node = n
  /\ last'.op = "optional" => nodes'[last'.node].isOptional

C29_OptionalMonotone == [][OptionalKeptStep]_vars

\* every node is still optional after a failing parse of a schema of three nodes
C29_Witness ==
  /\ Parsed /\ ~last.res.ok
  /\ Len(nodes) > 2
  /\ \A n \in DOMAIN nodes : nodes[n].isOptional /\ HasValidator(n)

(***************************************************************************)
(* C30: runBenchmark runs its iterations with a concurrency limit: at any  *)
(* time at most batchSize (5, or 10 in the later version)                  *)
(* runSingleBenchmark requests to the model client are in flight, and no   *)
(* request of a later batch is started before every request of the         *)
(* preceding batch has completed.                                          *)
(***************************************************************************)
\* the batch of task i, counted from 0
BatchOf(i) == (i - 1) \div runner.batchSize

C30_ConcurrencyLimit ==
  runner.pc # "none" =>
    /\ Cardinality(InFlight) <= runner.batchSize
    /\ \A i \in 1..runner.created : \A j \in 1..runner.iterations :
         BatchOf(j) < BatchOf(i) /\ i \in InFlight => j \in runner.completed
====
